---------------------------- MODULE Spec2Model ----------------------------
(***************************************************************************)
(* Model of purgepreload.py: a one-shot batch tool that walks a site's     *)
(* sitemap tree, derives one purge URL per page URL, sends the purge       *)
(* requests one after the other with a delay, and then re-requests the     *)
(* pages from a thread pool.                                               *)
(*                                                                         *)
(* URLs are TLA+ strings and are parsed character by character the way     *)
(* urllib.parse.urlparse parses them.  Modelled input domain: URL text     *)
(* over letters, digits and the delimiters : / ? # ; . = (no whitespace,   *)
(* no control characters, no brackets), <sitemap> and <url> elements with  *)
(* a <loc> text, with an empty <loc/> or with no <loc> at all, a delay     *)
(* >= 0 and a worker count >= 1 (time.sleep and ThreadPoolExecutor raise   *)
(* ValueError outside that domain).                                        *)
(***************************************************************************)
EXTENDS Naturals, Sequences, FiniteSets, TLC

(***************************************************************************)
(* Strings                                                                 *)
(***************************************************************************)

Min(a, b) == IF a <= b THEN a ELSE b
Max(a, b) == IF a >= b THEN a ELSE b

\* Python's slice s[a-1:b] with 1-based inclusive positions: out-of-range
\* positions are clipped, an empty range gives ""
Slice(s, a, b) ==
  IF Max(a, 1) > Min(b, Len(s)) THEN "" ELSE SubSeq(s, Max(a, 1), Min(b, Len(s)))

\* s[i] as a one-character string ("" outside s)
CharAt(s, i) == Slice(s, i, i)

\* s[from:] of Python, with 1-based from
StrFrom(s, from) == Slice(s, from, Len(s))

\* str.find(c, start): the least 1-based position >= start of the character
\* c in s, 0 when there is none (Python's -1)
RECURSIVE Find(_, _, _)
Find(s, c, start) ==
  IF start > Len(s) THEN 0
  ELSE IF SubSeq(s, start, start) = c THEN start
  ELSE Find(s, c, start + 1)

\* str.rfind(c) searched downwards from position from: the greatest
\* position of c in s, 0 when there is none
RECURSIVE RFindFrom(_, _, _)
RFindFrom(s, c, from) ==
  IF from < 1 THEN 0
  ELSE IF SubSeq(s, from, from) = c THEN from
  ELSE RFindFrom(s, c, from - 1)

RFind(s, c) == RFindFrom(s, c, Len(s))

\* c in s
Contains(s, c) == Find(s, c, 1) > 0

UpperLetters == "ABCDEFGHIJKLMNOPQRSTUVWXYZ"
LowerLetters == "abcdefghijklmnopqrstuvwxyz"
Digits == "0123456789"

\* c.isascii() and c.isalpha()
IsAlpha(c) == c # "" /\ (Contains(UpperLetters, c) \/ Contains(LowerLetters, c))

\* c in urllib.parse.scheme_chars
IsSchemeChar(c) == IsAlpha(c) \/ Contains(Digits, c) \/ Contains("+-.", c)

\* str.lower() of one character
LowerChar(c) ==
  IF Contains(UpperLetters, c) THEN CharAt(LowerLetters, Find(UpperLetters, c, 1)) ELSE c

\* str.lower()
RECURSIVE Lower(_)
Lower(s) == IF s = "" THEN "" ELSE LowerChar(CharAt(s, 1)) \o Lower(StrFrom(s, 2))

(***************************************************************************)
(* urllib.parse.urlparse                                                   *)
(***************************************************************************)

\* urllib.parse.uses_params
uses_params ==
  {"", "ftp", "hdl", "prospero", "http", "imap", "https", "shttp", "rtsp",
   "rtsps", "rtspu", "sip", "sips", "mms", "sftp", "tel"}

\* The position of the first of two characters' first occurrences, 0 being
\* "not found"
Earliest(a, b) == IF a = 0 THEN b ELSE IF b = 0 THEN a ELSE Min(a, b)

\* _splitnetloc(url, 2): the netloc ends before the first of / ? # at or
\* after position 3, or with url
NetlocEndAt(url, first) == IF first = 0 THEN Len(url) + 1 ELSE first
NetlocEnd(url) ==
  NetlocEndAt(url, Earliest(Find(url, "/", 3), Earliest(Find(url, "?", 3), Find(url, "#", 3))))

\* _splitparams(path): <<path, params>>, the path cut at position i of ";"
SplitAt(path, i) ==
  IF i = 0 THEN <<path, "">> ELSE <<Slice(path, 1, i - 1), StrFrom(path, i + 1)>>
splitparams(path) ==
  IF Contains(path, "/")
  THEN SplitAt(path, Find(path, ";", RFind(path, "/")))
  ELSE SplitAt(path, Find(path, ";", 1))

\* urlparse after urlsplit: the params are split off the path for the
\* schemes that use them
ParseResult(scheme, netloc, path, query, fragment, split) ==
  [scheme |-> scheme, netloc |-> netloc, path |-> split[1], params |-> split[2],
   query |-> query, fragment |-> fragment]

WithParams(scheme, netloc, path, query, fragment) ==
  ParseResult(scheme, netloc, path, query, fragment,
              IF scheme \in uses_params /\ Contains(path, ";")
              THEN splitparams(path) ELSE <<path, "">>)

\* urlsplit: url is cut at the first "?", at position q
SplitQuery(scheme, netloc, url, fragment, q) ==
  IF q > 0
  THEN WithParams(scheme, netloc, Slice(url, 1, q - 1), StrFrom(url, q + 1), fragment)
  ELSE WithParams(scheme, netloc, url, "", fragment)

\* urlsplit: url is cut at the first "#", at position h
SplitFragment(scheme, netloc, url, h) ==
  IF h > 0
  THEN SplitQuery(scheme, netloc, Slice(url, 1, h - 1), StrFrom(url, h + 1),
                  Find(Slice(url, 1, h - 1), "?", 1))
  ELSE SplitQuery(scheme, netloc, url, "", Find(url, "?", 1))

\* urlsplit: url[:2] == '//' starts a netloc
SplitNetloc(scheme, url) ==
  IF Slice(url, 1, 2) = "//"
  THEN SplitFragment(scheme, Slice(url, 3, NetlocEnd(url) - 1),
                     StrFrom(url, NetlocEnd(url)),
                     Find(StrFrom(url, NetlocEnd(url)), "#", 1))
  ELSE SplitFragment(scheme, "", url, Find(url, "#", 1))

\* urlsplit: what stands before the first ":", at position i, is a scheme
\* when it starts with a letter and is made of scheme_chars
SplitScheme(url, i) ==
  IF /\ i > 1
     /\ IsAlpha(CharAt(url, 1))
     /\ \A k \in 1..(i - 1) : IsSchemeChar(CharAt(url, k))
  THEN SplitNetloc(Lower(Slice(url, 1, i - 1)), StrFrom(url, i + 1))
  ELSE SplitNetloc("", url)

urlparse(url) == SplitScheme(url, Find(url, ":", 1))

(***************************************************************************)
(* generate_purge_urls                                                     *)
(***************************************************************************)

\* Mutation of PurgeUrlOf: the path is taken as parsed, '/' is not put in
\* the place of an empty one
PurgeUrlOf_no_default(parsed, base) ==
  base \o parsed.path \o (IF parsed.query # "" THEN "?" \o parsed.query ELSE "")

\* Mutation of PurgeUrlOf: the query string is not appended
PurgeUrlOf_no_query(parsed, base) ==
  base \o (IF parsed.path # "" THEN parsed.path ELSE "/")

\* lines 52-57: the purge URL of a parsed page URL
PurgeUrlOf(parsed, base) ==
  base \o (IF parsed.path # "" THEN parsed.path ELSE "/")
       \o (IF parsed.query # "" THEN "?" \o parsed.query ELSE "")

\* lines 51-59, one iteration of the loop
purge_url(url, base) == PurgeUrlOf(urlparse(url), base)

generate_purge_urls(page_urls, base) ==
  [i \in 1..Len(page_urls) |-> purge_url(page_urls[i], base)]

(***************************************************************************)
(* Configuration (main, lines 133-151)                                     *)
(***************************************************************************)

\* args.protocol and args.domain of the modelled runs
Protocol == "https"
Domain == "site.ca"

base_url == Protocol \o "://" \o Domain
sitemap_url == base_url \o "/sitemap.xml"
purge_base == base_url \o "/purge"
site_domain == urlparse(base_url).netloc

(***************************************************************************)
(* Bounds                                                                  *)
(***************************************************************************)

\* most <loc> entries in one sitemap document of a walk checked alone
MaxEntries == 2
\* most nested process_sitemap calls whose requests.get has the frames it
\* nests left; in a call nested one deeper the interpreter raises
\* RecursionError inside requests.get
MaxDepth == 3
\* largest args.threads
MaxThreads == 2
\* most <loc> entries in all the sitemap documents of the site of a whole
\* run, and most <url> entries its walk comes by
MaxLocs == 3
MaxPages == 2
\* most URLs handed to send_purge_requests or warm_cache when it is called
\* alone
MaxUrls == 3
\* most page URLs handed to generate_purge_urls when it is called alone
MaxDeriveLen == 2

\* Sequences over S of length at most n
SeqUpTo(S, n) == UNION {[1..k -> S] : k \in 0..n}

(***************************************************************************)
(* The site: what requests.get + ET.fromstring give for a sitemap URL      *)
(***************************************************************************)

\* Sub-sitemap URLs a sitemap index may list
SubA == base_url \o "/a.xml"
SubB == base_url \o "/b.xml"

\* <url><loc> texts: two pages of the site, one without a path, a page of
\* another host, and the site's host written in another case and with a
\* port
PageFoo == "https://site.ca/foo/bar?x=1"
PageRoot == "https://site.ca"
PageOther == "https://other.ca/foo"
PageCase == "https://Site.ca/foo"
PagePort == "https://site.ca:443/foo"
SitePages == {PageFoo, PageRoot, PageOther, PageCase, PagePort}

\* What find('ns:loc').text gives for an empty <loc/>: None.  No element
\* has the empty string as its text, which stands for it: requests.get
\* raises MissingSchema for either, and the netloc urlparse gives for None,
\* b'', equals no domain, as does the netloc of ''
NoText == ""

\* A <sitemap> or <url> element without a <loc> child: find('ns:loc') gives
\* None and .text raises AttributeError (lines 31, 38)
NoLoc == "<no loc>"

\* The entries that are not a URL text
NoUrl == {NoText, NoLoc}

\* urlparse as process_sitemap calls it.  urlsplit is an lru_cache: the
\* parse of a URL seen before is looked up
parse_cache == [u \in SitePages \cup {NoText} |-> urlparse(u)]
cached_urlparse(u) == IF u \in DOMAIN parse_cache THEN parse_cache[u] ELSE urlparse(u)

\* Mutation of InDomain: the netloc is compared without regard to case
InDomain_any_case(locs, domain) ==
  SelectSeq(locs, LAMBDA u : Lower(cached_urlparse(u).netloc) = Lower(domain))

\* lines 37-41: the <url><loc> texts whose netloc equals site_domain
InDomain(locs, domain) == SelectSeq(locs, LAMBDA u : cached_urlparse(u).netloc = domain)

\* requests.get or raise_for_status raises a RequestException
RequestError == [kind |-> "request_error", tag |-> "", locs |-> <<>>]

\* A response to fetch_sitemap: requests raises (transport failure or
\* raise_for_status), ET.fromstring raises ParseError, or a parsed root
\* element with its tag and, in document order, one entry for each element
\* the walker's findall selects for that tag: its <loc> text, NoText or
\* NoLoc
Responses(subs, pages, n, m) ==
  {RequestError,
   [kind |-> "parse_error", tag |-> "", locs |-> <<>>],
   [kind |-> "xml", tag |-> "other", locs |-> <<>>]}
  \cup {[kind |-> "xml", tag |-> "sitemapindex", locs |-> l] : l \in SeqUpTo(subs, n)}
  \cup {[kind |-> "xml", tag |-> "urlset", locs |-> l] : l \in SeqUpTo(pages, Min(n, m))}

\* The <loc> entries of a response that are a urlset's
PageLocs(resp) == IF resp.tag = "urlset" THEN Len(resp.locs) ELSE 0

\* The sub-sitemaps a response refers to
Refs(resp) ==
  IF resp.kind = "xml" /\ resp.tag = "sitemapindex"
  THEN {resp.locs[k] : k \in 1..Len(resp.locs)} \ {NoLoc} ELSE {}

\* What the site may answer a request of url with: requests.get(None)
\* raises MissingSchema, a RequestException, whatever the site
ResponsesAt(url, responses) == IF url = NoText THEN {RequestError} ELSE responses

\* The sitemap URLs a site refers to and does not serve yet
Missing(w) == UNION {Refs(w[u]) : u \in DOMAIN w} \ DOMAIN w

\* The sites that extend w with at most n more <loc> entries in all, at
\* most m of them in urlsets: every sitemap URL referred to is served, and
\* nothing else is
RECURSIVE Sites(_, _, _, _, _)
SitesAt(w, u, subs, pages, n, m) ==
  UNION {Sites(w @@ (u :> r), subs, pages, n - Len(r.locs), m - PageLocs(r)) :
           r \in ResponsesAt(u, Responses(subs, pages, n, m))}
Sites(w, subs, pages, n, m) ==
  IF Missing(w) = {} THEN {w}
  ELSE SitesAt(w, CHOOSE u \in Missing(w) : TRUE, subs, pages, n, m)

\* The <url> entries of a urlset that line 38 runs for: all of them, or
\* those up to the first one without <loc>, where the loop is left
RECURSIVE UrlLoop(_)
UrlLoop(locs) ==
  IF locs = <<>> THEN [n |-> 0, returns |-> TRUE]
  ELSE IF Head(locs) = NoLoc THEN [n |-> 1, returns |-> FALSE]
  ELSE [n |-> 1 + UrlLoop(Tail(locs)).n, returns |-> UrlLoop(Tail(locs)).returns]

\* The walk of sitemap u of site w, depth calls being left to nest: the
\* number n of <url> entries line 38 runs for, a urlset counting once for
\* each reference to it, and whether the call returns; the walk ends with
\* the first call that does not
RECURSIVE WalkEntries(_, _, _)
RECURSIVE WalkEntriesOfAll(_, _, _)
Then(first, rest) ==
  IF first.returns THEN [n |-> first.n + rest.n, returns |-> rest.returns] ELSE first
WalkEntries(w, u, depth) ==
  IF depth = 0 \/ w[u].kind # "xml" THEN [n |-> 0, returns |-> FALSE]
  ELSE IF w[u].tag = "urlset" THEN UrlLoop(w[u].locs)
  ELSE IF w[u].tag = "sitemapindex" THEN WalkEntriesOfAll(w, w[u].locs, depth - 1)
  ELSE [n |-> 0, returns |-> TRUE]
WalkEntriesOfAll(w, us, depth) ==
  IF us = <<>> THEN [n |-> 0, returns |-> TRUE]
  ELSE IF Head(us) = NoLoc THEN [n |-> 0, returns |-> FALSE]
  ELSE IF ~WalkEntries(w, Head(us), depth).returns THEN WalkEntries(w, Head(us), depth)
  ELSE Then(WalkEntries(w, Head(us), depth), WalkEntriesOfAll(w, Tail(us), depth))

\* The number of <url> entries the walk of sitemap u of site w comes by
UrlEntries(w, u, depth) == WalkEntries(w, u, depth).n

\* The sites of the whole-run specification: sites whose every entry has
\* a URL text, and sites with entries that have none
RunWebs ==
  {w \in SitesAt(<<>>, sitemap_url, {SubA, SubB}, {PageFoo, PageRoot, PageOther},
                 MaxLocs, MaxPages)
          \cup SitesAt(<<>>, sitemap_url, {SubA} \cup NoUrl, {PageFoo} \cup NoUrl,
                       MaxEntries, MaxEntries) :
     UrlEntries(w, sitemap_url, MaxDepth) <= MaxPages}

\* What a site of the walk-alone specification may serve for a sitemap URL
WalkResponses ==
  Responses({SubA, SubB}, SitePages, MaxEntries, MaxEntries)
    \cup Responses({SubA} \cup NoUrl, {PageFoo} \cup NoUrl, MaxEntries, MaxEntries)

\* The site being static, a URL requested again is served as before; the
\* first request of a URL of a site not fixed beforehand settles what the
\* site serves there
Served(w, url) == IF url \in DOMAIN w THEN {w[url]} ELSE ResponsesAt(url, WalkResponses)
Serve(w, url, resp) == IF url \in DOMAIN w THEN w ELSE w @@ (url :> resp)

(***************************************************************************)
(* State                                                                   *)
(***************************************************************************)
VARIABLES
  web,            \* the site: sitemap URL -> response
  skip_purge,     \* args.skip_purge
  skip_warm,      \* args.skip_warm
  threads,        \* args.threads
  pc,             \* where the main thread is
  stack,          \* the process_sitemap calls in progress, innermost last
  all_page_urls,  \* main's all_page_urls
  purge_targets,  \* main's purge_targets
  purge_failures, \* main's purge_failures
  warm_failures,  \* main's warm_failures
  idx,            \* the loop index i of the running send_purge_requests / warm_cache
  success_count,  \* its success_count
  failed_urls,    \* its failed_urls
  yielded,        \* the futures as_completed has yielded in warm_cache's loop
  waiter,         \* the futures that finished since as_completed started and
                  \* are not yielded yet, in the order they finished
  trace,          \* what the running send_purge_requests did so far, in order
  futures,        \* warm_cache's futures, in submission order, each with how
                  \* its request ended and what visit_page returned
  log,            \* the requests started so far, in order
  interrupted,    \* a KeyboardInterrupt was delivered to the main thread
  outcome,        \* how the process ended ("" while it runs)
  out             \* the lines main printed about its phases (lines 172-190)

args == <<skip_purge, skip_warm, threads>>
data == <<all_page_urls, purge_targets, purge_failures, warm_failures>>
locals == <<idx, success_count, failed_urls, yielded, waiter, trace>>
vars == <<web, args, pc, stack, data, locals, futures, log, interrupted, outcome, out>>

\* sys.exit(1) in the four handlers of main; 0 when main returns
ExitCode(o) == IF o \in {"completed", "nothing_to_do"} THEN 0 ELSE 1

\* Log and trace entries: a request is started, the main thread has the
\* answer of a purge request ("200", another status, or "exception"),
\* time.sleep(delay) returned
Get(phase, url) == [ev |-> "GET", phase |-> phase, url |-> url, result |-> ""]
Resp(phase, url, result) == [ev |-> "RESP", phase |-> phase, url |-> url, result |-> result]
Sleep == [ev |-> "sleep", phase |-> "purge", url |-> "", result |-> ""]

\* The URLs of the entries of l, in order
Urls(l) == [k \in 1..Len(l) |-> l[k].url]

\* The URLs requested in a phase, in the order the requests were started
Requested(l, phase) == Urls(SelectSeq(l, LAMBDA e : e.ev = "GET" /\ e.phase = phase))

\* The state in which the main thread is at a given place with nothing
\* requested yet
InitState(at, frames, webs, flags, workers, page_lists, target_lists) ==
  /\ web \in webs
  /\ skip_purge \in flags
  /\ skip_warm \in flags
  /\ threads \in workers
  /\ pc = at
  /\ stack = frames
  /\ all_page_urls \in page_lists
  /\ purge_targets \in target_lists
  /\ purge_failures = <<>>
  /\ warm_failures = <<>>
  /\ idx = 0
  /\ success_count = 0
  /\ failed_urls = <<>>
  /\ yielded = {}
  /\ waiter = <<>>
  /\ trace = <<>>
  /\ futures = <<>>
  /\ log = <<>>
  /\ interrupted = FALSE
  /\ outcome = ""
  /\ out = <<>>

\* line 158, the call process_sitemap(sitemap_url, site_domain)
RootCall == <<[url |-> sitemap_url, fetched |-> FALSE, subs |-> <<>>, page_urls |-> <<>>]>>

Init == InitState("walk", RootCall, RunWebs, BOOLEAN, 1..MaxThreads, {<<>>}, {<<>>})

\* The process ends: main returns or one of its handlers calls sys.exit(1)
Exit(o) ==
  /\ pc' = "exit"
  /\ outcome' = o

\* A call returns, or an exception leaves it: its locals are gone
DropLocals ==
  /\ idx' = 0
  /\ success_count' = 0
  /\ failed_urls' = <<>>
  /\ yielded' = {}
  /\ waiter' = <<>>
  /\ trace' = <<>>

(***************************************************************************)
(* process_sitemap                                                         *)
(***************************************************************************)

Top == stack[Len(stack)]

\* The innermost process_sitemap call nests no deeper than the interpreter
\* lets requests.get receive a response in, and a document be parsed and
\* searched
FramesLeft == Len(stack) <= MaxDepth

SetTop(frame) == [stack EXCEPT ![Len(stack)] = frame]

\* lines 14-17: process_sitemap calls fetch_sitemap, which calls
\* requests.get; the main thread waits for the response
FetchRequest ==
  /\ pc = "walk" /\ ~Top.fetched
  /\ log' = Append(log, Get("sitemap", Top.url))
  /\ pc' = "walk_wait"
  /\ UNCHANGED <<web, out, args, stack, data, locals, futures, interrupted, outcome>>

\* Mutation of FetchFails: the document that failed is passed over as an
\* empty one and the walk goes on
FetchFails_tolerant ==
  /\ pc = "walk_wait" /\ FramesLeft
  /\ \E resp \in Served(web, Top.url) :
       /\ resp.kind # "xml"
       /\ web' = Serve(web, Top.url, resp)
  /\ stack' = SetTop([Top EXCEPT !.fetched = TRUE])
  /\ pc' = "walk"
  /\ UNCHANGED <<args, out, data, locals, futures, log, interrupted, outcome>>

\* lines 17-19, 24: fetch_sitemap raises; no frame catches it, every
\* process_sitemap call in progress is left and main's handler (lines
\* 208-213) ends the process.  A request that fails before requests.get
\* nests deep (a URL that is None, a connection refused) fails so in a
\* call of any depth
FetchFails ==
  /\ pc = "walk_wait"
  /\ \E resp \in Served(web, Top.url) :
       /\ resp.kind # "xml"
       /\ ~FramesLeft => resp.kind = "request_error"
       /\ web' = Serve(web, Top.url, resp)
       /\ Exit(IF resp.kind = "request_error" THEN "network_error" ELSE "xml_error")
  /\ stack' = <<>>
  /\ UNCHANGED <<args, out, data, locals, futures, log, interrupted>>

\* The entries of a document
Entries(doc) == {doc.locs[k] : k \in 1..Len(doc.locs)}

\* lines 25-41 after a successful fetch: the sub-sitemaps still to walk and
\* the page URLs found so far
Fetched(frame, doc, domain) ==
  [frame EXCEPT
     !.fetched = TRUE,
     !.subs = IF doc.tag = "sitemapindex" THEN doc.locs ELSE <<>>,
     !.page_urls = IF doc.tag = "urlset" THEN InDomain(doc.locs, domain) ELSE <<>>]

\* lines 17-19, 24-41: the response is there and is parsed; a urlset's loop
\* runs
FetchSitemap ==
  /\ pc = "walk_wait" /\ FramesLeft
  /\ \E resp \in Served(web, Top.url) :
       /\ resp.kind = "xml"
       /\ ~(resp.tag = "urlset" /\ NoLoc \in Entries(resp))
       /\ web' = Serve(web, Top.url, resp)
       /\ stack' = SetTop(Fetched(Top, resp, site_domain))
  /\ pc' = "walk"
  /\ UNCHANGED <<args, out, data, locals, futures, log, interrupted, outcome>>

\* lines 17-19, 24-38: the response is a urlset with a <url> that has no
\* <loc>; line 38 raises AttributeError, which main's last handler (lines
\* 217-219) reports
UrlWithoutLoc ==
  /\ pc = "walk_wait" /\ FramesLeft
  /\ \E resp \in Served(web, Top.url) :
       /\ resp.kind = "xml"
       /\ resp.tag = "urlset" /\ NoLoc \in Entries(resp)
       /\ web' = Serve(web, Top.url, resp)
  /\ Exit("unexpected_error")
  /\ stack' = <<>>
  /\ UNCHANGED <<args, out, data, locals, futures, log, interrupted>>

\* line 31 for a <sitemap> that has no <loc>: AttributeError, reported by
\* main's last handler
SitemapWithoutLoc ==
  /\ pc = "walk" /\ Top.fetched /\ Top.subs # <<>>
  /\ Head(Top.subs) = NoLoc
  /\ Exit("unexpected_error")
  /\ stack' = <<>>
  /\ UNCHANGED <<web, out, args, data, locals, futures, log, interrupted>>

\* line 32, the call: process_sitemap(sub_sitemap_url, site_domain); the
\* caller's own fetch nested deeper than the one frame of the call, which
\* the interpreter therefore allows
CallSubSitemap ==
  /\ pc = "walk" /\ Top.fetched /\ Top.subs # <<>>
  /\ Head(Top.subs) # NoLoc
  /\ FramesLeft
  /\ stack' = Append(stack, [url |-> Head(Top.subs), fetched |-> FALSE,
                             subs |-> <<>>, page_urls |-> <<>>])
  /\ UNCHANGED <<web, out, args, pc, data, locals, futures, log, interrupted, outcome>>

\* lines 17, 24 of a call nested deeper than the interpreter lets a
\* response be received in, its URL being a text whose request is sent:
\* requests.get was called and raises RecursionError from the calls it
\* nests, whatever the server answers (a document, an error status); no
\* response is used; main's last handler (lines 217-219) reports it
RecursionLimit ==
  /\ pc = "walk_wait" /\ ~FramesLeft
  /\ Top.url # NoText
  /\ Exit("unexpected_error")
  /\ stack' = <<>>
  /\ UNCHANGED <<web, out, args, data, locals, futures, log, interrupted>>

\* Mutation of extend: what the inner call returned is put in front
extend_in_front(page_urls, returned) == returned \o page_urls

\* line 32, page_urls.extend(...) with what the inner call returned
extend(page_urls, returned) == page_urls \o returned

\* The caller's frame once the inner call has returned its list
Resumed(caller, returned) ==
  [caller EXCEPT !.subs = Tail(caller.subs),
                 !.page_urls = extend(caller.page_urls, returned)]

\* line 44 of an inner call: its list is appended to the caller's
ReturnSubSitemap ==
  /\ pc = "walk" /\ Top.fetched /\ Top.subs = <<>>
  /\ Len(stack) > 1
  /\ stack' = [SubSeq(stack, 1, Len(stack) - 1) EXCEPT ![Len(stack) - 1] =
                 Resumed(stack[Len(stack) - 1], Top.page_urls)]
  /\ UNCHANGED <<web, out, args, pc, data, locals, futures, log, interrupted, outcome>>

\* line 44 of the outermost call, line 158: main has all_page_urls
ReturnWalk ==
  /\ pc = "walk" /\ Top.fetched /\ Top.subs = <<>>
  /\ Len(stack) = 1
  /\ all_page_urls' = Top.page_urls
  /\ stack' = <<>>
  /\ pc' = "walked"
  /\ UNCHANGED <<web, out, args, purge_targets, purge_failures, warm_failures, locals,
                 futures, log, interrupted, outcome>>

(***************************************************************************)
(* main, lines 160-206: between the phases                                 *)
(***************************************************************************)

\* lines 160-162
MainNothingToDo ==
  /\ pc = "walked" /\ all_page_urls = <<>>
  /\ Exit("nothing_to_do")
  /\ UNCHANGED <<web, out, args, stack, data, locals, futures, log, interrupted>>

\* Mutation of MainDerive: main does not look whether the walk found a page
MainDerive_unguarded ==
  /\ pc = "walked"
  /\ purge_targets' = generate_purge_urls(all_page_urls, purge_base)
  /\ pc' = "purge_phase"
  /\ UNCHANGED <<web, out, args, stack, all_page_urls, purge_failures, warm_failures, locals,
                 futures, log, interrupted, outcome>>

\* lines 164-168
MainDerive ==
  /\ pc = "walked" /\ all_page_urls # <<>>
  /\ purge_targets' = generate_purge_urls(all_page_urls, purge_base)
  /\ pc' = "purge_phase"
  /\ UNCHANGED <<web, out, args, stack, all_page_urls, purge_failures, warm_failures, locals,
                 futures, log, interrupted, outcome>>

\* lines 171, 176-177
MainSkipPurge ==
  /\ pc = "purge_phase" /\ skip_purge
  /\ pc' = "warm_phase"
  /\ out' = Append(out, "Skipping cache purge phase")
  /\ UNCHANGED <<web, args, stack, data, locals, futures, log, interrupted, outcome>>

\* lines 180, 185-186
MainSkipWarm ==
  /\ pc = "warm_phase" /\ skip_warm
  /\ pc' = "report"
  /\ out' = Append(out, "Skipping cache warming phase")
  /\ UNCHANGED <<web, args, stack, data, locals, futures, log, interrupted, outcome>>

\* lines 189-206: the report is printed and main returns
MainReport ==
  /\ pc = "report"
  /\ Exit("completed")
  /\ out' = Append(out, "FINAL REPORT")
  /\ UNCHANGED <<web, args, stack, data, locals, futures, log, interrupted>>

(***************************************************************************)
(* send_purge_requests                                                     *)
(***************************************************************************)

\* Mutation of StartPurge: send_purge_requests sleeps for the delay before
\* its loop
StartPurge_sleeps ==
  /\ pc = "purge_phase" /\ ~skip_purge
  /\ idx' = 0 /\ success_count' = 0 /\ failed_urls' = <<>>
  /\ yielded' = {} /\ waiter' = <<>>
  /\ trace' = <<Sleep>>
  /\ pc' = "purge_loop"
  /\ out' = Append(out, "CACHE PURGE PHASE")
  /\ UNCHANGED <<web, args, stack, data, futures, log, interrupted, outcome>>


\* The status codes a purge request can return
Statuses == {"200", "500"}

\* Mutation of StartPurge: main calls send_purge_requests whatever the flag
StartPurge_unflagged ==
  /\ pc = "purge_phase"
  /\ DropLocals
  /\ pc' = "purge_loop"
  /\ out' = Append(out, "CACHE PURGE PHASE")
  /\ UNCHANGED <<web, args, stack, data, futures, log, interrupted, outcome>>

\* lines 171-175, 65-67: the call
StartPurge ==
  /\ pc = "purge_phase" /\ ~skip_purge
  /\ DropLocals
  /\ pc' = "purge_loop"
  /\ out' = Append(out, "CACHE PURGE PHASE")
  /\ UNCHANGED <<web, args, stack, data, futures, log, interrupted, outcome>>

\* lines 69-71: the next URL of the loop is requested
PurgeRequest ==
  /\ pc = "purge_loop" /\ idx < Len(purge_targets)
  /\ log' = Append(log, Get("purge", purge_targets[idx + 1]))
  /\ trace' = Append(trace, Get("purge", purge_targets[idx + 1]))
  /\ pc' = "purge_wait"
  /\ UNCHANGED <<web, out, args, stack, data, idx, success_count, failed_urls, yielded, waiter,
                 futures, interrupted, outcome>>

\* Mutation of IsPurged: every response counts as a success
IsPurged_any_status(status) == TRUE

\* line 74
IsPurged(status) == status = "200"

\* Mutation of PurgeException: the URL is not recorded as failed
PurgeException_unrecorded ==
  /\ pc = "purge_wait"
  /\ trace' = Append(trace, Resp("purge", purge_targets[idx + 1], "exception"))
  /\ idx' = idx + 1
  /\ pc' = "purge_loop"
  /\ UNCHANGED <<web, out, args, stack, data, success_count, failed_urls, yielded, waiter,
                 futures, log, interrupted, outcome>>


\* lines 72-79: the request returned a response
PurgeResponse ==
  /\ pc = "purge_wait"
  /\ \E status \in Statuses :
       /\ trace' = Append(trace, Resp("purge", purge_targets[idx + 1], status))
       /\ IF IsPurged(status)
          THEN success_count' = success_count + 1 /\ UNCHANGED failed_urls
          ELSE failed_urls' = Append(failed_urls, purge_targets[idx + 1])
               /\ UNCHANGED success_count
  /\ pc' = "purge_sleep"
  /\ UNCHANGED <<web, out, args, stack, data, idx, yielded, waiter, futures, log, interrupted,
                 outcome>>

\* Mutation of PurgeException: the exception of a purge request is not
\* caught and reaches main's last handler
PurgeException_fatal ==
  /\ pc = "purge_wait"
  /\ Exit("unexpected_error")
  /\ trace' = Append(trace, Resp("purge", purge_targets[idx + 1], "exception"))
  /\ failed_urls' = Append(failed_urls, purge_targets[idx + 1])
  /\ idx' = idx + 1
  /\ UNCHANGED <<web, out, args, stack, data, success_count, yielded, waiter, futures, log,
                 interrupted>>

\* lines 82-84: the request raised; the handler comes after the sleep of
\* line 81, which is skipped, and the loop goes on
PurgeException ==
  /\ pc = "purge_wait"
  /\ trace' = Append(trace, Resp("purge", purge_targets[idx + 1], "exception"))
  /\ failed_urls' = Append(failed_urls, purge_targets[idx + 1])
  /\ idx' = idx + 1
  /\ pc' = "purge_loop"
  /\ UNCHANGED <<web, out, args, stack, data, success_count, yielded, waiter, futures, log,
                 interrupted, outcome>>

\* line 81: time.sleep(delay) returns
PurgeSleep ==
  /\ pc = "purge_sleep"
  /\ trace' = Append(trace, Sleep)
  /\ idx' = idx + 1
  /\ pc' = "purge_loop"
  /\ UNCHANGED <<web, out, args, stack, data, success_count, failed_urls, yielded, waiter,
                 futures,
                 log, interrupted, outcome>>

\* Mutation of PurgeReturn: the function returns from inside its loop
PurgeReturn_in_loop ==
  /\ pc = "purge_loop" /\ idx <= Len(purge_targets)
  /\ purge_failures' = failed_urls
  /\ DropLocals
  /\ pc' = "warm_phase"
  /\ UNCHANGED <<web, out, args, stack, all_page_urls, purge_targets, warm_failures, futures,
                 log, interrupted, outcome>>

\* lines 86-88, 175: the loop is over, main has purge_failures
PurgeReturn ==
  /\ pc = "purge_loop" /\ idx = Len(purge_targets)
  /\ purge_failures' = failed_urls
  /\ DropLocals
  /\ pc' = "warm_phase"
  /\ UNCHANGED <<web, out, args, stack, all_page_urls, purge_targets, warm_failures, futures,
                 log, interrupted, outcome>>

(***************************************************************************)
(* warm_cache                                                              *)
(***************************************************************************)

\* What a page request can end in: a status code, or requests raises (a
\* timeout included)
PageResults == {"200", "500", "exception"}

\* lines 100-106: what visit_page returns as its second component
visit_page(result) == result = "200"

\* The futures in a state
InState(fs, st) == {k \in 1..Len(fs) : fs[k].state = st}

\* lines 180-184, 92-96, 108: the call
StartWarm ==
  /\ pc = "warm_phase" /\ ~skip_warm
  /\ DropLocals
  /\ futures' = <<>>
  /\ pc' = "warm_submit"
  /\ out' = Append(out, "CACHE WARMING PHASE")
  /\ UNCHANGED <<web, args, stack, data, log, interrupted, outcome>>

\* Mutation of WarmSubmit: the warmer is handed the purge URLs
WarmSubmit_purge_targets ==
  /\ pc = "warm_submit" /\ Len(futures) < Len(all_page_urls)
  /\ futures' = Append(futures, [url |-> purge_targets[Len(futures) + 1],
                                 state |-> "pending", result |-> "", success |-> FALSE])
  /\ UNCHANGED <<web, out, args, pc, stack, data, locals, log, interrupted, outcome>>

\* line 109: executor.submit(visit_page, url) for the next url
WarmSubmit ==
  /\ pc = "warm_submit" /\ Len(futures) < Len(all_page_urls)
  /\ futures' = Append(futures, [url |-> all_page_urls[Len(futures) + 1],
                                 state |-> "pending", result |-> "", success |-> FALSE])
  /\ UNCHANGED <<web, out, args, pc, stack, data, locals, log, interrupted, outcome>>

\* line 110: every url is submitted, as_completed starts
WarmSubmitted ==
  /\ pc = "warm_submit" /\ Len(futures) = Len(all_page_urls)
  /\ pc' = "warm_loop"
  /\ UNCHANGED <<web, out, args, stack, data, locals, futures, log, interrupted, outcome>>

\* Mutation of WorkerFree: the pool starts a thread for every work item
WorkerFree_unbounded(fs, n, k) == TRUE

\* A pool thread holds work item k or is free to take it.  The pool has
\* max_workers threads, each running one item at a time and taking the
\* oldest queued item next: the items submitted before k that are not
\* finished each keep a thread
WorkerFree(fs, n, k) == Cardinality({j \in 1..(k - 1) : fs[j].state # "finished"}) < n

\* The thread that holds a work item calls visit_page: line 101, the
\* request is sent.  The threads holding items run side by side, so the
\* requests of the items held start in any order.  The pool's threads run
\* until its queue is empty, also while the main thread is in
\* executor.__exit__
WorkerStart ==
  /\ pc \in {"warm_submit", "warm_loop", "warm_shutdown"}
  /\ \E k \in InState(futures, "pending") :
       /\ WorkerFree(futures, threads, k)
       /\ futures' = [futures EXCEPT ![k].state = "running"]
       /\ log' = Append(log, Get("page", futures[k].url))
  /\ UNCHANGED <<web, out, args, pc, stack, data, locals, interrupted, outcome>>

\* lines 101-106: a request in flight ends and visit_page returns; the
\* future is set, which adds it to the list of as_completed's waiter when
\* as_completed is running
WorkerFinish ==
  /\ pc \in {"warm_submit", "warm_loop", "warm_shutdown"}
  /\ \E k \in InState(futures, "running"), result \in PageResults :
       /\ futures' = [futures EXCEPT ![k].state = "finished",
                                     ![k].result = result,
                                     ![k].success = visit_page(result)]
       /\ waiter' = IF pc = "warm_loop" THEN Append(waiter, k) ELSE waiter
  /\ UNCHANGED <<web, out, args, pc, stack, data, idx, success_count, failed_urls, yielded,
                 trace, log, interrupted, outcome>>

\* The futures that had finished when as_completed started and are not
\* yielded yet.  as_completed keeps them in a set
EarlyFinished(fs, done, w) ==
  (InState(fs, "finished") \ done) \ {w[i] : i \in 1..Len(w)}

\* The futures as_completed may yield next: any of those that had finished
\* when it started, in the order of its set of them; after them the
\* others, in the order they finish
NextYield(fs, done, w) ==
  IF EarlyFinished(fs, done, w) # {} THEN EarlyFinished(fs, done, w)
  ELSE IF w # <<>> THEN {Head(w)} ELSE {}

\* lines 110-119: as_completed yields a finished future and the loop body
\* runs.  (visit_page catches every Exception, so future.result() does not
\* raise and lines 120-122 never run.)
WarmYield ==
  /\ pc = "warm_loop"
  /\ \E k \in NextYield(futures, yielded, waiter) :
       /\ yielded' = yielded \cup {k}
       /\ waiter' = IF EarlyFinished(futures, yielded, waiter) # {} THEN waiter
                    ELSE Tail(waiter)
       /\ IF futures[k].success
          THEN success_count' = success_count + 1 /\ UNCHANGED failed_urls
          ELSE failed_urls' = Append(failed_urls, futures[k].url)
               /\ UNCHANGED success_count
  /\ idx' = idx + 1
  /\ UNCHANGED <<web, out, args, pc, stack, data, trace, futures, log, interrupted, outcome>>

\* lines 108, 124-126, 184: as_completed is exhausted, the executor shuts
\* down, main has warm_failures
WarmReturn ==
  /\ pc = "warm_loop" /\ yielded = 1..Len(futures)
  /\ warm_failures' = failed_urls
  /\ DropLocals
  /\ pc' = "report"
  /\ UNCHANGED <<web, out, args, stack, all_page_urls, purge_targets, purge_failures, futures,
                 log, interrupted, outcome>>

(***************************************************************************)
(* KeyboardInterrupt                                                       *)
(***************************************************************************)

\* Where a KeyboardInterrupt raised in the main thread takes it: out of the
\* with block of line 108 through executor.__exit__, which is
\* shutdown(wait=True); from anywhere else straight to the handler of
\* lines 214-216
InterruptTarget(at) ==
  IF at \in {"warm_submit", "warm_loop"} THEN "warm_shutdown" ELSE "exit"

\* The interrupt signal arrives while main runs: the exception leaves
\* every call of the main thread in progress
Interrupt ==
  /\ pc \notin {"exit", "warm_shutdown"}
  /\ ~interrupted
  /\ interrupted' = TRUE
  /\ pc' = InterruptTarget(pc)
  /\ outcome' = IF InterruptTarget(pc) = "exit" THEN "cancelled" ELSE outcome
  /\ stack' = <<>>
  /\ DropLocals
  /\ UNCHANGED <<web, out, args, data, futures, log>>

\* executor.__exit__ returns once the pool's threads have run every
\* submitted work item; the KeyboardInterrupt reaches lines 214-216
ShutdownDone ==
  /\ pc = "warm_shutdown"
  /\ InState(futures, "pending") = {} /\ InState(futures, "running") = {}
  /\ Exit("cancelled")
  /\ UNCHANGED <<web, out, args, stack, data, locals, futures, log, interrupted>>

(***************************************************************************)
(* Specifications                                                          *)
(***************************************************************************)

Walk ==
  \/ FetchRequest \/ FetchFails \/ FetchSitemap \/ UrlWithoutLoc
  \/ SitemapWithoutLoc \/ CallSubSitemap \/ RecursionLimit
  \/ ReturnSubSitemap \/ ReturnWalk

Next ==
  \/ Walk
  \/ MainNothingToDo \/ MainDerive \/ MainSkipPurge \/ MainSkipWarm \/ MainReport
  \/ StartPurge \/ PurgeRequest \/ PurgeResponse \/ PurgeException \/ PurgeSleep
  \/ PurgeReturn
  \/ StartWarm \/ WarmSubmit \/ WarmSubmitted \/ WorkerStart \/ WorkerFinish
  \/ WarmYield \/ WarmReturn
  \/ Interrupt \/ ShutdownDone

\* A whole run of main
Spec == Init /\ [][Next]_vars

\* process_sitemap(sitemap_url, site_domain) alone, on a site that is
\* settled as the walk requests it
InitWalk == InitState("walk", RootCall, {<<>>}, {FALSE}, {1}, {<<>>}, {<<>>})
SpecWalk == InitWalk /\ [][Walk]_vars

\* generate_purge_urls(page_urls, purge_base) alone, on lists of page URLs
\* put together from their parts: a path, the ;parameters of its last
\* segment, a query and a fragment, each present or not
DeriveParts ==
  {p \in [path : {"", "/", "/foo/bar"}, params : {"", ";v=2"},
          query : {"", "?", "?x=1"}, fragment : {"", "#top"}] :
     p.path = "" => p.params = ""}

Compose(p) == base_url \o p.path \o p.params \o p.query \o p.fragment

DeriveUrls == {Compose(p) : p \in DeriveParts}

InitDerive ==
  InitState("generate", <<>>, {<<>>}, {FALSE}, {1}, SeqUpTo(DeriveUrls, MaxDeriveLen), {<<>>})

\* lines 46-61: the call and its return
CallGenerate ==
  /\ pc = "generate"
  /\ purge_targets' = generate_purge_urls(all_page_urls, purge_base)
  /\ pc' = "generated"
  /\ UNCHANGED <<web, out, args, stack, all_page_urls, purge_failures, warm_failures, locals,
                 futures, log, interrupted, outcome>>

SpecDerive == InitDerive /\ [][CallGenerate]_vars

\* send_purge_requests(urls, delay) alone, on lists of purge URLs
PurgeUrls == {purge_base \o "/foo/bar?x=1", purge_base \o "/"}

InitPurge ==
  InitState("purge_phase", <<>>, {<<>>}, {FALSE}, {1}, {<<>>}, SeqUpTo(PurgeUrls, MaxUrls))

Purge ==
  \/ StartPurge \/ PurgeRequest \/ PurgeResponse \/ PurgeException \/ PurgeSleep
  \/ PurgeReturn

SpecPurge == InitPurge /\ [][Purge]_vars

\* warm_cache(urls, threads) alone, on lists of page URLs, with the
\* KeyboardInterrupt that may end it
InitWarm ==
  InitState("warm_phase", <<>>, {<<>>}, {FALSE}, 1..MaxThreads,
            SeqUpTo({PageFoo, PageRoot}, MaxUrls), {<<>>})

Warm ==
  \/ StartWarm \/ WarmSubmit \/ WarmSubmitted \/ WorkerStart \/ WorkerFinish
  \/ WarmYield \/ WarmReturn

SpecWarm == InitWarm /\ [][Warm \/ Interrupt \/ ShutdownDone]_vars

\* send_purge_requests(urls, delay) and then warm_cache(urls, threads), or
\* warm_cache alone, on lists of URLs, the empty list included, with no
\* KeyboardInterrupt
SpecCalls == (InitPurge \/ InitWarm) /\ [][Purge \/ Warm]_vars

\* process_sitemap(sitemap_url, site_domain) alone, on sites of nested
\* sitemap indexes whose every document is fetched and parsed; there is a
\* sub-sitemap more than the calls the interpreter lets nest
NestSubs == {"https://site.ca/sitemap" \o ToString(i) \o ".xml" : i \in 1..MaxDepth}
NestDocs == {sitemap_url} \cup NestSubs
NestResponses ==
  {[kind |-> "xml", tag |-> "sitemapindex", locs |-> l] : l \in SeqUpTo(NestDocs, 1)}
  \cup {[kind |-> "xml", tag |-> "urlset", locs |-> <<PageFoo>>]}
NestWebs == [NestDocs -> NestResponses]

InitNest == InitState("walk", RootCall, NestWebs, {FALSE}, {1}, {<<>>}, {<<>>})

NestWalk ==
  \/ FetchRequest \/ FetchSitemap \/ CallSubSitemap \/ RecursionLimit
  \/ ReturnSubSitemap \/ ReturnWalk

SpecNest == InitNest /\ [][NestWalk]_vars

\* The purge URLs of the pages of the site
PurgeUrlOfPage == [u \in {PageFoo, PageRoot} |-> purge_url(u, purge_base)]

\* main from line 170 on, after a walk that found pages and the derivation
\* of their purge URLs, with no KeyboardInterrupt; the main thread and the
\* pool's threads keep running and every request returns or fails
InitRun ==
  /\ InitState("purge_phase", <<>>, {<<>>}, BOOLEAN, 1..MaxThreads,
               SeqUpTo({PageFoo, PageRoot}, MaxPages) \ {<<>>},
               SeqUpTo({PurgeUrlOfPage[u] : u \in {PageFoo, PageRoot}}, MaxPages))
  /\ purge_targets = [i \in 1..Len(all_page_urls) |-> PurgeUrlOfPage[all_page_urls[i]]]

Run == MainSkipPurge \/ MainSkipWarm \/ MainReport \/ Purge \/ Warm

SpecRun == InitRun /\ [][Run]_vars /\ WF_vars(Run)

(***************************************************************************)
(* send_purge_requests: C1, C4                                             *)
(***************************************************************************)

\* The positions of the entries of one kind in a trace
EventsOf(t, ev) == {k \in 1..Len(t) : t[k].ev = ev}

\* C1: after every purge attempt, whatever its outcome, the dispatcher
\* sleeps for the delay before the next purge request is issued: between
\* any two purge requests of a call there is a sleep.
C1_DelayBetweenRequests ==
  \A i, j \in EventsOf(trace, "GET") :
    i < j => \E k \in EventsOf(trace, "sleep") : i < k /\ k < j

\* The URLs of a trace whose attempt did not return status 200
FailedIn(t) == Urls(SelectSeq(t, LAMBDA e : e.ev = "RESP" /\ e.result # "200"))

\* While send_purge_requests runs: the requests made so far are the first
\* URLs of the input in input order, one per URL; at most one of them is
\* unanswered, and only while the main thread waits for it; failed_urls
\* holds the URLs whose attempt did not return 200, in input order
PurgeLoopInv ==
  pc \in {"purge_loop", "purge_wait", "purge_sleep"} =>
    /\ Cardinality(EventsOf(trace, "GET")) = idx + (IF pc = "purge_loop" THEN 0 ELSE 1)
    /\ Cardinality(EventsOf(trace, "GET")) <= Len(purge_targets)
    /\ Requested(trace, "purge")
         = SubSeq(purge_targets, 1, Cardinality(EventsOf(trace, "GET")))
    /\ Cardinality(EventsOf(trace, "GET")) - Cardinality(EventsOf(trace, "RESP"))
         = (IF pc = "purge_wait" THEN 1 ELSE 0)
    /\ failed_urls = FailedIn(trace)

\* When send_purge_requests returns: every URL of the input was requested,
\* and what it returns is the failed ones
PurgeReturnsFailed ==
  pc = "purge_loop" /\ pc' = "warm_phase" =>
    /\ Requested(trace, "purge") = purge_targets
    /\ Cardinality(EventsOf(trace, "RESP")) = Len(purge_targets)
    /\ purge_failures' = FailedIn(trace)

\* C4: send_purge_requests issues exactly one request per input purge URL,
\* in input order, with at most one purge request in flight at any time,
\* and returns exactly the subsequence of the input, in input order, of the
\* URLs whose attempt did not return status 200; no URL is requested twice.
C4_SequentialPurge == [][PurgeLoopInv' /\ PurgeReturnsFailed]_vars

\* Three purge URLs, only the attempt of the second failed
C4_Witness ==
  /\ pc = "warm_phase"
  /\ purge_targets = <<"https://site.ca/purge/foo/bar?x=1", "https://site.ca/purge/",
                       "https://site.ca/purge/foo/bar?x=1">>
  /\ Requested(log, "purge") = purge_targets
  /\ purge_failures = <<"https://site.ca/purge/">>

(***************************************************************************)
(* KeyboardInterrupt: C2                                                   *)
(***************************************************************************)

\* C2: from the moment an interrupt is delivered, in any phase, no further
\* sitemap, purge or page request is started, page URLs still queued in the
\* worker pool included, and the run ends with the 'cancelled' outcome and
\* a non-zero exit code.
C2_InterruptAborts ==
  [][/\ interrupted => log' = log
     /\ interrupted' /\ pc' = "exit" => outcome' = "cancelled" /\ ExitCode(outcome') # 0]_vars

(***************************************************************************)
(* warm_cache: C3                                                          *)
(***************************************************************************)

\* How often x occurs in a sequence
Count(seq, x) == Cardinality({i \in 1..Len(seq) : seq[i] = x})

\* The sequence of URLs urls is, as a multiset, the URLs of the futures S
SameUrls(urls, S) ==
  /\ Len(urls) = Cardinality(S)
  /\ \A k \in S : Count(urls, futures[k].url)
                    = Cardinality({j \in S : futures[j].url = futures[k].url})

\* The futures whose request ended in another status than 200, a timeout
\* or another exception
Failed(S) == {k \in S : futures[k].result # "200"}

\* warm_cache returned to main
WarmReturned == ~skip_warm /\ (pc = "report" \/ outcome = "completed")

\* C3: for every list of page URLs, every worker count N >= 1 and every
\* interleaving of completions, warm_cache requests each URL occurrence
\* exactly once, never has more than N requests in flight, and returns a
\* failure list that is, as a multiset, exactly the URL occurrences whose
\* request ended in a non-200 status, a timeout or an exception.
C3_WarmFailures ==
  /\ Cardinality(InState(futures, "running")) <= threads
  /\ SameUrls(Requested(log, "page"), (1..Len(futures)) \ InState(futures, "pending"))
  /\ pc = "warm_loop" => SameUrls(failed_urls, Failed(yielded))
  /\ WarmReturned =>
       /\ Len(futures) = Len(all_page_urls)
       /\ \A k \in 1..Len(futures) :
            futures[k].url = all_page_urls[k] /\ futures[k].state = "finished"
       /\ SameUrls(warm_failures, Failed(1..Len(futures)))

\* Three URLs and two workers: the first succeeded, the third failed before
\* the second did, and the failure list is in that order
C3_Witness ==
  /\ pc = "report"
  /\ threads = 2
  /\ all_page_urls = <<PageFoo, PageRoot, PageFoo>>
  /\ Len(futures) = 3
  /\ [k \in 1..3 |-> futures[k].result] = <<"200", "500", "exception">>
  /\ warm_failures = <<PageFoo, PageRoot>>

\* The futures among the first n whose request did not end in status 200,
\* in input order, and their URLs
FailedIdx(n) == SelectSeq([k \in 1..n |-> k], LAMBDA k : futures[k].result # "200")
InputOrderFailed(n) == [i \in 1..Len(FailedIdx(n)) |-> futures[FailedIdx(n)[i]].url]

\* C11: with a worker count of 1, page requests are issued one at a time in
\* input order, and the outcomes are processed and appended to the returned
\* failure list in input order: the failure list is the input-ordered
\* subsequence of the failed URLs, for every timing of the requests.
C11_OneWorkerSequential ==
  threads = 1 =>
    /\ Cardinality(InState(futures, "running")) <= 1
    /\ Len(Requested(log, "page")) <= Len(all_page_urls)
    /\ Requested(log, "page") = SubSeq(all_page_urls, 1, Len(Requested(log, "page")))
    /\ pc = "warm_loop" => yielded = 1..idx /\ failed_urls = InputOrderFailed(idx)
    /\ WarmReturned => warm_failures = InputOrderFailed(Len(futures))

(***************************************************************************)
(* main: C5, C6                                                            *)
(***************************************************************************)

\* The phases in main's order
PhaseRank(phase) == IF phase = "sitemap" THEN 1 ELSE IF phase = "purge" THEN 2 ELSE 3

\* C5: no purge request is issued before the whole sitemap walk has
\* returned its URL list, and no page request is issued before the purge
\* phase has finished, its last delay included; only within the warm phase
\* are several requests in flight together.
C5_PhaseBarriers ==
  /\ \A i, j \in 1..Len(log) : i < j => PhaseRank(log[i].phase) <= PhaseRank(log[j].phase)
  /\ Requested(log, "purge") # <<>> =>
       /\ stack = <<>> /\ pc \notin {"walk", "walk_wait", "walked"}
       /\ all_page_urls # <<>> /\ Len(purge_targets) = Len(all_page_urls)
  /\ Requested(log, "page") # <<>> =>
       /\ pc \in {"warm_submit", "warm_loop", "warm_shutdown", "report", "exit"}
       /\ trace = <<>>
       /\ skip_purge \/ Requested(log, "purge") = purge_targets
  /\ pc \in {"walk", "walk_wait", "walked", "purge_phase", "purge_loop", "purge_wait",
             "purge_sleep", "warm_phase"} => InState(futures, "running") = {}

\* Two sitemap documents fetched, two purge requests made, and the two page
\* requests in flight together
C5_Witness ==
  /\ Len(Requested(log, "sitemap")) = 2
  /\ Len(Requested(log, "purge")) = 2
  /\ Cardinality(InState(futures, "running")) = 2

\* A sitemap document was requested whose fetch or whose parse fails
FailedFetch ==
  \E k \in 1..Len(log) : log[k].phase = "sitemap" /\ web[log[k].url].kind # "xml"

\* C6: if the fetch or the XML parse of any sitemap document reached during
\* the walk fails, at any depth, the whole run is aborted: the URLs
\* collected from sibling sitemaps are discarded, no purge request and no
\* page request is ever issued, and the process ends with a non-zero exit
\* code.  (The failure is there once the response is: until then the main
\* thread waits in requests.get, where an interrupt ends the run as
\* cancelled.)
C6_FailedFetchAborts ==
  FailedFetch =>
    /\ log[Len(log)].phase = "sitemap" /\ web[log[Len(log)].url].kind # "xml"
    /\ pc \in {"walk_wait", "exit"}
    /\ pc = "exit" =>
         /\ outcome = IF interrupted THEN "cancelled"
                      ELSE IF web[log[Len(log)].url].kind = "request_error"
                      THEN "network_error" ELSE "xml_error"
         /\ ExitCode(outcome) # 0
         /\ stack = <<>>
    /\ all_page_urls = <<>> /\ purge_targets = <<>>
    /\ Requested(log, "purge") = <<>> /\ Requested(log, "page") = <<>>

\* The parse of the second sub-sitemap fails after the first one gave a
\* page of the site
C6_Witness ==
  /\ web[sitemap_url].locs = <<SubA, SubB>>
  /\ web[SubA].locs = <<PageFoo>>
  /\ web[SubB].kind = "parse_error"
  /\ Requested(log, "sitemap") = <<sitemap_url, SubA, SubB>>
  /\ outcome = "xml_error"

(***************************************************************************)
(* process_sitemap: C7, C8                                                 *)
(***************************************************************************)

\* What the walk of sitemap u of site w is to return: a urlset's pages of
\* the domain, and for an index the lists of its sub-sitemaps one after the
\* other in the order the index lists them.  depth bounds the nesting.
RECURSIVE Pages(_, _, _)
RECURSIVE PagesOfAll(_, _, _)
Pages(w, u, depth) ==
  IF w[u].kind # "xml" \/ depth = 0 THEN <<>>
  ELSE IF w[u].tag = "urlset" THEN InDomain(w[u].locs, site_domain)
  ELSE IF w[u].tag = "sitemapindex" THEN PagesOfAll(w, w[u].locs, depth - 1)
  ELSE <<>>
PagesOfAll(w, us, depth) ==
  IF us = <<>> THEN <<>>
  ELSE Pages(w, Head(us), depth) \o PagesOfAll(w, Tail(us), depth)

\* The sitemap URLs the walk of sitemap u of site w is to fetch, in order:
\* u, then for an index what the walk of each sub-sitemap fetches, one
\* reference after the other
RECURSIVE Fetches(_, _, _)
RECURSIVE FetchesOfAll(_, _, _)
Fetches(w, u, depth) ==
  IF depth = 0 THEN <<>>
  ELSE IF w[u].kind = "xml" /\ w[u].tag = "sitemapindex"
  THEN <<u>> \o FetchesOfAll(w, w[u].locs, depth - 1)
  ELSE <<u>>
FetchesOfAll(w, us, depth) ==
  IF us = <<>> THEN <<>>
  ELSE Fetches(w, Head(us), depth) \o FetchesOfAll(w, Tail(us), depth)

\* C7: for a sitemap index whose children all fetch and parse, the walk
\* returns the concatenation, in the order the index lists them, of the
\* result of walking each child, depth first; each child is fetched once
\* per reference and duplicates are kept.
C7_DepthFirstConcatenation ==
  pc = "walked" =>
    /\ all_page_urls = Pages(web, sitemap_url, MaxDepth)
    /\ Requested(log, "sitemap") = Fetches(web, sitemap_url, MaxDepth)

\* An index of an index and a urlset, the urlset being listed by both
C7_Witness ==
  /\ pc = "walked"
  /\ web[sitemap_url].locs = <<SubA, SubB>>
  /\ web[SubA].tag = "sitemapindex" /\ web[SubA].locs = <<SubB>>
  /\ web[SubB].tag = "urlset" /\ web[SubB].locs = <<PageFoo, PageRoot>>
  /\ Requested(log, "sitemap") = <<sitemap_url, SubA, SubB, SubB>>
  /\ all_page_urls = <<PageFoo, PageRoot, PageFoo, PageRoot>>

\* s starts with p
StartsWith(s, p) == Slice(s, 1, Len(p)) = p

\* The text of url, read from the left, is a scheme, "://", the domain and
\* then nothing or the start of a path, a query or a fragment
OnDomain(url, domain) ==
  \E scheme \in {"http", "https"} :
    /\ StartsWith(url, scheme \o "://" \o domain)
    /\ CharAt(url, Len(scheme \o "://" \o domain) + 1) \in {"", "/", "?", "#"}

OnSite == [u \in SitePages \cup {NoText} |-> OnDomain(u, Domain)]

\* C8: for a urlset, process_sitemap returns exactly the subsequence, in
\* document order, of its <loc> entries whose host is string-equal to the
\* domain; a urlset with only off-domain entries yields the empty sequence,
\* and every URL of the walker's output over any sitemap tree has host
\* equal to the domain.  (Host: what stands between "://" and the path, a
\* port included, compared as written.)
C8_DomainFilter ==
  /\ \A k \in 1..Len(stack) :
       /\ stack[k].fetched /\ web[stack[k].url].tag = "urlset"
            => stack[k].page_urls = SelectSeq(web[stack[k].url].locs, LAMBDA u : OnSite[u])
       /\ \A i \in 1..Len(stack[k].page_urls) : OnSite[stack[k].page_urls[i]]
  /\ \A i \in 1..Len(all_page_urls) : OnSite[all_page_urls[i]]

\* Two urlsets, one listing another host's page and a page of the site, one
\* listing the site's host in another case and with a port
C8_Witness ==
  /\ pc = "walked"
  /\ web[sitemap_url].locs = <<SubA, SubB>>
  /\ web[SubA].tag = "urlset" /\ web[SubA].locs = <<PageOther, PageFoo>>
  /\ web[SubB].tag = "urlset" /\ web[SubB].locs = <<PageCase, PagePort>>
  /\ all_page_urls = <<PageFoo>>

(***************************************************************************)
(* generate_purge_urls: C9, C10                                            *)
(***************************************************************************)

\* The parts a page URL of DeriveUrls was put together from
PartsOf == [u \in DeriveUrls |-> CHOOSE p \in DeriveParts : Compose(p) = u]

\* The path of the expected purge URL, and its query part: '?' and the
\* query when there is one
PathOrSlash(p) == IF p.path = "" THEN "/" ELSE p.path
QueryPart(p) == IF Len(p.query) > 1 THEN p.query ELSE ""

\* C9: generate_purge_urls returns a list as long as its input, and its
\* i-th element is the purge base followed by the path of the i-th page
\* URL ('/' when it has none) and, exactly when that URL has a query
\* string, by '?' and the query; https://site.ca/foo/bar?x=1 gives
\* https://site.ca/purge/foo/bar?x=1 and https://site.ca gives
\* https://site.ca/purge/.
C9_IndexAligned ==
  pc = "generated" =>
    /\ Len(purge_targets) = Len(all_page_urls)
    /\ \A i \in 1..Len(all_page_urls) :
         /\ purge_targets[i] = purge_base \o PathOrSlash(PartsOf[all_page_urls[i]])
                                \o QueryPart(PartsOf[all_page_urls[i]])
         /\ all_page_urls[i] = "https://site.ca/foo/bar?x=1"
              => purge_targets[i] = "https://site.ca/purge/foo/bar?x=1"
         /\ all_page_urls[i] = "https://site.ca"
              => purge_targets[i] = "https://site.ca/purge/"

\* A list with a URL without a path and a URL with a path and a query
C9_Witness ==
  /\ pc = "generated"
  /\ all_page_urls = <<PageRoot, PageFoo>>
  /\ purge_targets = <<"https://site.ca/purge/", "https://site.ca/purge/foo/bar?x=1">>

\* Two page URLs differ only in their query string
OnlyQueryDiffers(p, q) ==
  /\ p.path = q.path /\ p.params = q.params /\ p.fragment = q.fragment
  /\ QueryPart(p) # QueryPart(q)

\* s without its first '?' and what follows it
BeforeQuery(s) == IF Contains(s, "?") THEN Slice(s, 1, Find(s, "?", 1) - 1) ELSE s

\* C10 as stated: two page URLs with different (path, query) pairs never
\* derive the same purge URL, and two page URLs that differ only in their
\* query string derive purge URLs that differ only in the appended '?query'.
C10_InjectiveOnPathQuery ==
  pc = "generated" =>
    \A i, j \in 1..Len(all_page_urls) :
      /\ <<PartsOf[all_page_urls[i]].path, QueryPart(PartsOf[all_page_urls[i]])>>
           # <<PartsOf[all_page_urls[j]].path, QueryPart(PartsOf[all_page_urls[j]])>>
         => purge_targets[i] # purge_targets[j]
      /\ OnlyQueryDiffers(PartsOf[all_page_urls[i]], PartsOf[all_page_urls[j]])
         => /\ BeforeQuery(purge_targets[i]) = BeforeQuery(purge_targets[j])
            /\ purge_targets[i] = BeforeQuery(purge_targets[i]) \o QueryPart(PartsOf[all_page_urls[i]])
            /\ purge_targets[j] = BeforeQuery(purge_targets[j]) \o QueryPart(PartsOf[all_page_urls[j]])

\* C10, amended: the derivation is injective on the pairs of the path, an
\* empty path counting as '/', and the query: page URLs that differ in that
\* pair never derive the same purge URL, and page URLs that differ only in
\* their query string derive purge URLs that differ only in the appended
\* '?query'.
C10_InjectiveOnSlashedPathQuery ==
  pc = "generated" =>
    \A i, j \in 1..Len(all_page_urls) :
      /\ <<PathOrSlash(PartsOf[all_page_urls[i]]), QueryPart(PartsOf[all_page_urls[i]])>>
           # <<PathOrSlash(PartsOf[all_page_urls[j]]), QueryPart(PartsOf[all_page_urls[j]])>>
         => purge_targets[i] # purge_targets[j]
      /\ OnlyQueryDiffers(PartsOf[all_page_urls[i]], PartsOf[all_page_urls[j]])
         => /\ BeforeQuery(purge_targets[i]) = BeforeQuery(purge_targets[j])
            /\ purge_targets[i] = BeforeQuery(purge_targets[i]) \o QueryPart(PartsOf[all_page_urls[i]])
            /\ purge_targets[j] = BeforeQuery(purge_targets[j]) \o QueryPart(PartsOf[all_page_urls[j]])

\* Two page URLs with the same path, one with a query and one without
C10_Witness ==
  /\ pc = "generated"
  /\ all_page_urls = <<"https://site.ca/foo/bar?x=1", "https://site.ca/foo/bar">>
  /\ purge_targets = <<"https://site.ca/purge/foo/bar?x=1", "https://site.ca/purge/foo/bar">>

(***************************************************************************)
(* main: C12, C13, C18                                                     *)
(***************************************************************************)

\* Every sitemap document the walk of sitemap u of site w comes by is
\* fetched and parsed and has a <loc> in each of its entries, and the
\* calls nest less deep than the interpreter allows
RECURSIVE Walkable(_, _, _)
Walkable(w, u, depth) ==
  /\ depth > 0
  /\ u # NoLoc
  /\ w[u].kind = "xml"
  /\ w[u].tag = "urlset" => NoLoc \notin Entries(w[u])
  /\ w[u].tag = "sitemapindex" =>
       \A i \in 1..Len(w[u].locs) : Walkable(w, w[u].locs[i], depth - 1)

\* C12: when the sitemap walk completes and yields no page URL of the
\* domain, the run stops with the neutral outcome: no purge request and no
\* page request is issued, whatever the skip flags, and the process does
\* not end with an error exit code (an interrupt apart, which ends it as
\* cancelled).
C12_NothingToDo ==
  pc \notin {"walk", "walk_wait"} /\ Walkable(web, sitemap_url, MaxDepth)
     /\ Pages(web, sitemap_url, MaxDepth) = <<>> =>
    /\ pc \in {"walked", "exit"}
    /\ all_page_urls = <<>> /\ purge_targets = <<>>
    /\ Requested(log, "purge") = <<>> /\ Requested(log, "page") = <<>>
    /\ pc = "exit" => outcome = (IF interrupted THEN "cancelled" ELSE "nothing_to_do")
    /\ pc = "exit" /\ ~interrupted => ExitCode(outcome) = 0

\* A urlset of pages of another host only, no phase being skipped
C12_Witness ==
  /\ web[sitemap_url].tag = "urlset"
  /\ web[sitemap_url].locs = <<PageOther, PageOther>>
  /\ ~skip_purge /\ ~skip_warm
  /\ outcome = "nothing_to_do"

\* send_purge_requests runs, warm_cache runs
InPurge == pc \in {"purge_loop", "purge_wait", "purge_sleep"}
InWarm == pc \in {"warm_submit", "warm_loop", "warm_shutdown"}

\* The sequence urls is, as a multiset, the sequence others
SameBag(urls, others) ==
  /\ Len(urls) = Len(others)
  /\ \A i \in 1..Len(urls) : Count(urls, urls[i]) = Count(others, urls[i])

\* The lines main prints about the purge phase and about the warm phase
PurgeLines == {"CACHE PURGE PHASE", "Skipping cache purge phase"}
WarmLines == {"CACHE WARMING PHASE", "Skipping cache warming phase"}
About(o, lines) == SelectSeq(o, LAMBDA l : l \in lines)

\* main is past its purge phase, past its warm phase
PastPurge == pc \in {"warm_phase", "warm_submit", "warm_loop", "report"} \/ outcome = "completed"
PastWarm == pc = "report" \/ outcome = "completed"

\* A skipped phase issues no request, none of its code runs and its failure
\* list stays empty; the run is not an error; the other phase runs on its
\* full input
SkippedPhaseFrame ==
  /\ skip_purge =>
       /\ Requested(log, "purge") = <<>> /\ ~InPurge /\ trace = <<>>
       /\ purge_failures = <<>>
  /\ skip_warm =>
       /\ Requested(log, "page") = <<>> /\ ~InWarm /\ futures = <<>>
       /\ warm_failures = <<>>
  /\ all_page_urls # <<>> /\ pc = "exit" /\ ~interrupted =>
       outcome = "completed" /\ ExitCode(outcome) = 0
  /\ PastWarm =>
       /\ ~skip_purge =>
            /\ Len(purge_targets) = Len(all_page_urls)
            /\ Requested(log, "purge") = purge_targets
       /\ ~skip_warm => SameBag(Requested(log, "page"), all_page_urls)

\* C13: a phase skipped by its flag issues no request and prints nothing,
\* its failure list in the final report is empty, the run is not an error,
\* and the other phase runs on its full input as it does without the flag.
C13_SkippedPhase ==
  /\ SkippedPhaseFrame
  /\ skip_purge => About(out, PurgeLines) = <<>>
  /\ skip_warm => About(out, WarmLines) = <<>>

\* C13, amended: a phase skipped by its flag issues no request, its failure
\* list in the final report is empty, the run is not an error, and the
\* other phase runs on its full input as it does without the flag; of the
\* skipped phase main prints one line, the notice that it is skipped, and
\* neither its banner nor any line of its loop.
C13_SkippedPhaseNotice ==
  /\ SkippedPhaseFrame
  /\ skip_purge =>
       /\ About(out, PurgeLines) \in {<<>>, <<"Skipping cache purge phase">>}
       /\ PastPurge => About(out, PurgeLines) # <<>>
       /\ pc \in {"walk", "walk_wait", "walked", "purge_phase"} =>
            About(out, PurgeLines) = <<>>
  /\ skip_warm =>
       /\ About(out, WarmLines) \in {<<>>, <<"Skipping cache warming phase">>}
       /\ PastWarm => About(out, WarmLines) # <<>>
       /\ pc \notin {"report", "exit"} => About(out, WarmLines) = <<>>

\* The purge phase was skipped and the warm phase requested both pages, one
\* of them failing
C13_Witness ==
  /\ skip_purge /\ ~skip_warm
  /\ outcome = "completed"
  /\ all_page_urls = <<PageFoo, PageRoot>>
  /\ Requested(log, "page") = <<PageFoo, PageRoot>>
  /\ warm_failures = <<PageRoot>>
  /\ out = <<"Skipping cache purge phase", "CACHE WARMING PHASE", "FINAL REPORT">>

\* C18: the warm phase is independent of the purge phase's outcomes: the
\* warmer receives the full page-URL list of the walk, never the purge URLs
\* and never a list reduced by purge failures; the page requests of the
\* warm phase are, as a multiset, that list whatever the purge requests
\* ended in; and the purge phase only requests derived purge URLs.
C18_WarmIndependentOfPurge ==
  /\ all_page_urls # <<>> => all_page_urls = Pages(web, sitemap_url, MaxDepth)
  /\ Len(futures) <= Len(all_page_urls)
  /\ \A k \in 1..Len(futures) : futures[k].url = all_page_urls[k]
  /\ \A k \in 1..Len(log) :
       /\ log[k].phase = "page" => \E i \in 1..Len(all_page_urls) : log[k].url = all_page_urls[i]
       /\ log[k].phase = "purge" =>
            \E i \in 1..Len(all_page_urls) : log[k].url = PurgeUrlOfPage[all_page_urls[i]]
  /\ WarmReturned =>
       /\ SameBag(Requested(log, "page"), all_page_urls)
       /\ SameBag(Requested(log, "page"), Pages(web, sitemap_url, MaxDepth))

\* Every purge request failed and every page was requested all the same
C18_Witness ==
  /\ pc = "report"
  /\ all_page_urls = <<PageFoo, PageRoot>>
  /\ purge_failures = purge_targets
  /\ Requested(log, "page") = <<PageFoo, PageRoot>>
  /\ warm_failures = <<>>

(***************************************************************************)
(* Per-URL failures: C14                                                   *)
(***************************************************************************)

\* An attempt of the running or of a past phase failed
AttemptFailed ==
  failed_urls \o purge_failures # <<>>
    \/ \E k \in InState(futures, "finished") : ~futures[k].success

\* The run never ends in an error; the report's purge list is what
\* send_purge_requests returned and its page list holds the failed page
\* URLs; every URL of a phase that ran was attempted
ReportAfterFailures ==
  /\ pc = "exit" => outcome = "completed"
  /\ outcome = "completed" =>
       /\ ExitCode(outcome) = 0
       /\ ~skip_purge => Requested(log, "purge") = purge_targets
       /\ ~skip_warm =>
            /\ SameBag(Requested(log, "page"), all_page_urls)
            /\ SameUrls(warm_failures, Failed(1..Len(futures)))

\* purge_failures is set once, by the return of send_purge_requests
PurgeFailuresReturned ==
  purge_failures' # purge_failures => pc = "purge_loop" /\ pc' = "warm_phase"

\* C14: per-URL purge and warm failures are never fatal: after an attempt
\* failed (non-200 status, timeout or exception) every remaining URL of the
\* phase and of the following phase is still attempted, and, the walk
\* having succeeded and every request returning or failing, the run
\* eventually reaches the final report, which lists exactly the failed
\* purge URLs and the failed page URLs, and exits with code zero.
C14_FailuresNotFatal ==
  /\ []ReportAfterFailures
  /\ [][PurgeReturnsFailed /\ PurgeFailuresReturned]_vars
  /\ AttemptFailed ~> outcome = "completed"

\* The first purge request and one page request failed, the other URLs
\* were attempted and the run completed
C14_Witness ==
  /\ outcome = "completed"
  /\ all_page_urls = <<PageFoo, PageRoot>>
  /\ Requested(log, "purge") = purge_targets
  /\ purge_failures = <<purge_targets[1]>>
  /\ Requested(log, "page") = <<PageFoo, PageRoot>>
  /\ warm_failures = <<PageFoo>>

(***************************************************************************)
(* send_purge_requests and warm_cache: C15, C17                            *)
(***************************************************************************)

\* C15: given an empty input sequence, send_purge_requests and warm_cache
\* each return an empty failure list without issuing any request and
\* without sleeping for the purge delay: the loop is not entered and the
\* return is the next step.
C15_EmptyInput ==
  /\ purge_targets = <<>> =>
       /\ Requested(log, "purge") = <<>> /\ trace = <<>>
       /\ pc \notin {"purge_wait", "purge_sleep"}
       /\ pc = "purge_loop" => failed_urls = <<>> /\ ENABLED PurgeReturn
       /\ purge_failures = <<>>
  /\ all_page_urls = <<>> =>
       /\ Requested(log, "page") = <<>> /\ futures = <<>>
       /\ InWarm => trace = <<>> /\ failed_urls = <<>>
       /\ pc = "warm_submit" => ENABLED WarmSubmitted
       /\ pc = "warm_loop" => ENABLED WarmReturn
       /\ warm_failures = <<>>

\* Both functions were called with an empty list and returned
C15_Witness ==
  /\ pc = "report"
  /\ purge_targets = <<>> /\ all_page_urls = <<>>
  /\ out = <<"CACHE PURGE PHASE", "CACHE WARMING PHASE">>
  /\ log = <<>>
  /\ purge_failures = <<>> /\ warm_failures = <<>>

\* In the loops: the outcomes processed so far are counted once each
LoopCounts ==
  /\ InPurge =>
       /\ success_count + Len(failed_urls) = Cardinality(EventsOf(trace, "RESP"))
       /\ success_count + Len(failed_urls) = idx + (IF pc = "purge_sleep" THEN 1 ELSE 0)
  /\ pc = "warm_loop" =>
       /\ success_count + Len(failed_urls) = Cardinality(yielded)
       /\ success_count + Len(failed_urls) = idx

\* At the return of either function: every URL is counted, and the list
\* returned is as long as the 'Failed' count printed
ReturnCounts ==
  /\ pc = "purge_loop" /\ pc' = "warm_phase" =>
       /\ success_count + Len(failed_urls) = Len(purge_targets)
       /\ Len(purge_failures') = Len(purge_targets) - success_count
  /\ pc = "warm_loop" /\ pc' = "report" =>
       /\ success_count + Len(failed_urls) = Len(all_page_urls)
       /\ Len(warm_failures') = Len(all_page_urls) - success_count

\* C17: in send_purge_requests and in warm_cache, at every point of the
\* loop success_count + len(failed_urls) is the number of URLs whose
\* outcome was processed so far, and on return it is len(urls), so that
\* the 'Failed' count printed, len(urls) - success_count, is the length of
\* the failure list returned, for every mix of outcomes and every
\* interleaving of completions.
C17_CountsAddUp == [][LoopCounts' /\ ReturnCounts]_vars

\* Three pages and two workers, all outcomes processed: one success and
\* two failures, the third page's processed before the second's
C17_Witness ==
  /\ pc = "warm_loop"
  /\ threads = 2
  /\ all_page_urls = <<PageFoo, PageRoot, PageFoo>>
  /\ yielded = {1, 2, 3}
  /\ success_count = 1
  /\ failed_urls = <<PageFoo, PageRoot>>

(***************************************************************************)
(* process_sitemap: C16                                                    *)
(***************************************************************************)

\* Sitemap u of site w, reached through the sitemaps of path, refers to
\* itself directly or through a chain of indexes, or to a sitemap that does
RECURSIVE Cyclic(_, _, _)
Cyclic(w, u, path) ==
  \/ u \in path
  \/ \E v \in Refs(w[u]) : Cyclic(w, v, path \cup {u})

\* C16: the walk returns a URL list whenever the sitemap documents
\* reachable from the root are finitely many, refer to each other without
\* a cycle and are all fetched and parsed, each document being fetched once
\* per reference to it; when an index refers to itself, directly or
\* through a chain of indexes, the walk never returns a list and no purge
\* or page request is issued.
C16_WalkReturnsIffAcyclic ==
  /\ ~Cyclic(web, sitemap_url, {}) =>
       /\ pc # "exit"
       /\ pc = "walked" =>
            /\ Requested(log, "sitemap") = Fetches(web, sitemap_url, Cardinality(NestDocs))
            /\ all_page_urls = Pages(web, sitemap_url, Cardinality(NestDocs))
  /\ Cyclic(web, sitemap_url, {}) =>
       /\ pc # "walked"
       /\ Requested(log, "purge") = <<>> /\ Requested(log, "page") = <<>>

=============================================================================
